---- MODULE Spec2Model ----
(***************************************************************************)
(* A model of the two GeoClaw run-specification scripts of the repository: *)
(*   src/CalSet/testrun_hagibis/setrun.py   (variant "hagibis")            *)
(*   src/testrun_haishen/setrun.py          (variant "haishen")            *)
(* Each script is __main__ -> setrun(claw_pkg) -> setgeo(rundata) ->       *)
(* rundata.write().  The model executes the script statement group by      *)
(* statement group (pc is the position in the script) on the attributes of *)
(* rundata the scripts touch.                                              *)
(*                                                                         *)
(* Numbers are integers in fixed units, so that every literal of the       *)
(* scripts is represented exactly:                                         *)
(*   time           1 unit = 10 s        (1.e10 s = 1000000000 units)      *)
(*   length hagibis 1 unit = 1 m                                           *)
(*   length haishen 1 unit = 1/100 degree                                  *)
(*   Manning coeff. 1 unit = 0.001                                         *)
(*   depth, tol     1 unit = 0.1 m                                         *)
(*   checkpt_times  1 unit = 0.01 s (only stored, never compared)          *)
(*   clustering     1 unit = 0.1                                           *)
(***************************************************************************)
EXTENDS Integers, Sequences, FiniteSets, TLC

\* ------------------------------------------------------------------------
\* Helpers for attribute objects: an object is a function from the names of
\* the attributes the script has assigned to their values.
\* ------------------------------------------------------------------------
NoAttrs == [a \in {} |-> 0]

IsSet(obj, a) == a \in DOMAIN obj

SetAttr(obj, a, v) == [b \in (DOMAIN obj) \cup {a} |-> IF b = a THEN v ELSE obj[b]]

\* lst[i] = v on a Python list (1-based here)
SetItem(lst, i, v) == [lst EXCEPT ![i] = v]

\* range(a, b) mapped through i*k: [i*k for i in range(a, b)]
ScaledRange(k, a, b) == [j \in 1..(b - a) |-> (a + j - 1) * k]

\* Time Conversions (10 s units: 60.0**2 * 24.0 s = 8640 units per day)
days2seconds(days) == days * 8640

\* 1.e10 seconds
T1e10 == 1000000000

\* np.infty / -np.infty / a finite threshold, as entries of a depth list
PosInf == [k |-> "inf", v |-> 0]
NegInf == [k |-> "ninf", v |-> 0]
Fin(x) == [k |-> "fin", v |-> x]

\* ------------------------------------------------------------------------
\* The literals of the two scripts.  v is the variant.
\* ------------------------------------------------------------------------
Variants == {"hagibis", "haishen"}

\* clawdata.lower / upper / num_cells
DomainLower(v) == IF v = "hagibis" THEN <<-1062000, -862000>> ELSE <<12000, 2200>>

\* DomainUpper with the sign of the hagibis east and north edges slipped
DomainUpper_SignSlip(v) ==
    IF v = "hagibis" THEN <<-396000 - 2430, -377300 - 2430>> ELSE <<15000, 5200>>

DomainUpper(v) ==
    IF v = "hagibis" THEN <<396000 - 2430, 377300 - 2430>> ELSE <<15000, 5200>>

\* NumCells with the hagibis counts rounded up to the even 600 x 510
NumCells_Rounded(v) == IF v = "hagibis" THEN <<600, 510>> ELSE <<300, 300>>

NumCells(v) == IF v = "hagibis" THEN <<599, 509>> ELSE <<300, 300>>

\* clawdata.num_aux = 3 + 1 + 3
NumAux(v) == 3 + 1 + 3

\* CapaIndex left at the cartesian value in the lat-lon script
CapaIndex_LeftCartesian(v) == 0

\* clawdata.capa_index: 0 for cartesian x-y, 2 for spherical lat-lon
CapaIndex(v) == IF v = "hagibis" THEN 0 ELSE 2

\* clawdata.tfinal = days2seconds(5) + 3600.0
TFinal(v) == days2seconds(5) + 360

\* OutputTimes with the hagibis range one hour too long: range(0, 123)
OutputTimes_OneMore(v) ==
    IF v = "hagibis" THEN ScaledRange(360, 0, 123) ELSE ScaledRange(120, 0, 360)

\* clawdata.output_times, the list of the output_style == 2 branch
OutputTimes(v) ==
    IF v = "hagibis" THEN ScaledRange(360, 0, 122) ELSE ScaledRange(120, 0, 360)

\* clawdata.total_steps of the output_style == 3 branch
TotalSteps(v) == IF v = "hagibis" THEN 1 ELSE 100

\* amrdata.amr_levels_max
AmrLevelsMax(v) == IF v = "hagibis" THEN 5 ELSE 2

\* RatiosX with the hagibis list one entry short of amr_levels_max - 1
RatiosX_Short(v) == IF v = "hagibis" THEN <<3, 3, 3>> ELSE <<6, 2, 2>>

\* amrdata.refinement_ratios_x / _y / _t
RatiosX(v) == IF v = "hagibis" THEN <<3, 3, 3, 3>> ELSE <<6, 2, 2>>

RatiosY(v) == IF v = "hagibis" THEN <<3, 3, 3, 3>> ELSE <<6, 2, 2>>

RatiosT(v) == IF v = "hagibis" THEN <<3, 3, 3, 3>> ELSE <<6, 2, 2>>

\* amrdata.aux_type
AuxType(v) ==
    IF v = "hagibis"
    THEN <<"center", "center", "yleft", "center", "center", "center",
           "center", "center", "center">>
    ELSE <<"center", "capacity", "yleft", "center", "center", "center",
           "center", "center", "center">>

\* amrdata.regrid_buffer_width
RegridBufferWidth(v) == IF v = "hagibis" THEN 2 ELSE 3

\* The refinement regions the script appends, as [minlevel, maxlevel]; the
\* other six entries (t1, t2, x1, x2, y1, y2) are read from clawdata when the
\* region is appended.
RegionLevels(v) == IF v = "hagibis" THEN <<>> ELSE << <<1, 2>> >>

\* GaugeList with the third hagibis line copied from the second, its gauge
\* number not renumbered
GaugeList_CopiedLine(v) ==
    IF v = "hagibis"
    THEN << <<1, -148259, -152271, 0, T1e10>>,
            <<2, -120163, -108297, 0, T1e10>>,
            <<2, -89128, -108677, 0, T1e10>>,
            <<4, -87745, -155540, 0, T1e10>>,
            <<5, -26157, -216277, 0, T1e10>>,
            <<6, -41183, -132450, 0, T1e10>>,
            <<7, -62196, -84840, 0, T1e10>>,
            <<8, -6036, -38828, 0, T1e10>>,
            <<9, -2430, -122612, 0, T1e10>>,
            <<10, 19237, -47900, 0, T1e10>> >>
    ELSE << <<1, 13022, 3300, 0, T1e10>>,
            <<2, 13020, 3257, 0, T1e10>>,
            <<3, 13025, 3310, 0, T1e10>>,
            <<4, 13001, 3247, 0, T1e10>>,
            <<5, 12895, 3270, 0, T1e10>>,
            <<6, 13060, 3110, 0, T1e10>>,
            <<7, 13030, 3120, 0, T1e10>>,
            <<8, 13142, 3158, 0, T1e10>>,
            <<9, 13200, 3297, 0, T1e10>>,
            <<10, 13297, 3260, 0, T1e10>>,
            <<11, 13243, 3325, 0, T1e10>>,
            <<12, 13250, 3380, 0, T1e10>>,
            <<13, 13104, 3400, 0, T1e10>> >>

\* The gauges the script appends: [id, x, y, t1, t2]
GaugeList(v) ==
    IF v = "hagibis"
    THEN << <<1, -148259, -152271, 0, T1e10>>,
            <<2, -120163, -108297, 0, T1e10>>,
            <<3, -89128, -108677, 0, T1e10>>,
            <<4, -87745, -155540, 0, T1e10>>,
            <<5, -26157, -216277, 0, T1e10>>,
            <<6, -41183, -132450, 0, T1e10>>,
            <<7, -62196, -84840, 0, T1e10>>,
            <<8, -6036, -38828, 0, T1e10>>,
            <<9, -2430, -122612, 0, T1e10>>,
            <<10, 19237, -47900, 0, T1e10>> >>
    ELSE << <<1, 13022, 3300, 0, T1e10>>,
            <<2, 13020, 3257, 0, T1e10>>,
            <<3, 13025, 3310, 0, T1e10>>,
            <<4, 13001, 3247, 0, T1e10>>,
            <<5, 12895, 3270, 0, T1e10>>,
            <<6, 13060, 3110, 0, T1e10>>,
            <<7, 13030, 3120, 0, T1e10>>,
            <<8, 13142, 3158, 0, T1e10>>,
            <<9, 13200, 3297, 0, T1e10>>,
            <<10, 13297, 3260, 0, T1e10>>,
            <<11, 13243, 3325, 0, T1e10>>,
            <<12, 13250, 3380, 0, T1e10>>,
            <<13, 13104, 3400, 0, T1e10>> >>

\* geo_data.coordinate_system: 1 = XY, 2 = lonlat
CoordinateSystem(v) == IF v = "hagibis" THEN 1 ELSE 2

\* The topography entries the script appends, as
\* [topotype, minlevel, maxlevel, fname]; t1 and t2 are read from
\* rundata.clawdata.t0 and rundata.clawdata.tfinal when the entry is appended.
TopoList(v) ==
    IF v = "hagibis"
    THEN << <<3, 1, 1, "topo_01L_mask.dat">>,
            <<3, 1, 2, "topo_02_mask.dat">>,
            <<3, 1, 3, "topo_03_mask.dat">>,
            <<3, 1, 4, "topo_04_mask.dat">>,
            <<3, 1, 5, "topo_05.dat">> >>
    ELSE << <<3, 1, 4, "gebco_2020_n60.0_s0.0_w105.0_e165.0_landmask.asc">> >>

\* The ForceDry objects the script appends to qinit_data.force_dry_list
ForceDryList(v) ==
    IF v = "hagibis"
    THEN << [tend |-> T1e10, fname |-> "force_dry_init_05.dat"] >>
    ELSE <<>>

\* One FGmaxGrid as the script fills it in: x2 and y2 are computed from dx
\* in hagibis (fg.x2 = 28710.0 - fg.dx).
FGmaxGrid(dx, x1, x2, y1, y2, tstart) ==
    [point_style |-> 2, dx |-> dx, x1 |-> x1, x2 |-> x2, y1 |-> y1, y2 |-> y2,
     min_level_check |-> 1, arrival_tol |-> 1, tstart_max |-> tstart,
     tend_max |-> T1e10, dt_check |-> 6, interp_method |-> 0]

\* The fgmax grids the script appends to fgmax_data.fgmax_grids
FgmaxList(v) ==
    IF v = "hagibis"
    THEN << FGmaxGrid(90, -20790, 28710 - 90, -82690, -19690 - 90, 360 * 48),
            FGmaxGrid(30, -11730, 7770 - 30, -49630, -19930 - 30, 360 * 48) >>
    ELSE << FGmaxGrid(10, 12500, 14500, 2500, 4500, 360 * 24) >>

\* surge_data.drag_law and storm_type
DragLaw(v) == IF v = "hagibis" THEN 4 ELSE 1

StormType(v) == IF v = "hagibis" THEN -1 ELSE -2

\* A bound of a friction region: a reference to one of rundata.clawdata's
\* lists (the script passes the list object itself) or a literal tuple.
RefTo(attr) == [kind |-> "ref", attr |-> attr, val |-> <<>>]
Lit(tuple) == [kind |-> "val", attr |-> "", val |-> tuple]

\* FrictionList with the three coefficients of the commented-out shelf
\* region pasted onto the whole-domain depth list
FrictionList_ExtraCoefficient(v) ==
    << [lower |-> RefTo("lower"), upper |-> RefTo("upper"),
        depths |-> <<PosInf, Fin(0), NegInf>>,
        coefficients |-> <<30, 12, 22>>] >>

\* The friction regions the script appends:
\* [lower, upper, depths, manning_coefficients]
FrictionList(v) ==
    << [lower |-> RefTo("lower"), upper |-> RefTo("upper"),
        depths |-> <<PosInf, Fin(0), NegInf>>,
        coefficients |-> <<30, 22>>] >>

\* ------------------------------------------------------------------------
\* Scenarios.  A scenario is the set of literals a script is run with.  The
\* two scenarios as written are the two files; the edited scenarios change
\* one literal group of a file to the value a scenario of the specification
\* names (its Scenarios B, C, D) or to another value of a mode selector the
\* script branches on.
\* ------------------------------------------------------------------------
\* clawdata.output_style = 2
OutputStyleLit == 2

\* clawdata.checkpt_style = 0
CheckptStyleLit == 0

AsWritten(v) ==
    [variant |-> v, edit |-> "none",
     output_style |-> OutputStyleLit, checkpt_style |-> CheckptStyleLit,
     tfinal |-> TFinal(v), output_times |-> OutputTimes(v),
     coordinate_system |-> CoordinateSystem(v),
     friction |-> FrictionList(v)]

\* the values the if/elif chains of the scripts distinguish
OutputStyles == 1..3
CheckptStyles == -3..3

\* Scenario B: the hagibis domain declared geographic, no capacity slot
ScenarioB == [AsWritten("hagibis") EXCEPT !.edit = "B", !.coordinate_system = 2]

\* Scenario C: output list [0, 3600, 7200] s with tfinal = 3600 s
ScenarioC(v) ==
    [AsWritten(v) EXCEPT !.edit = "C", !.tfinal = 360,
                         !.output_times = <<0, 360, 720>>]

\* Scenario D: a local override region (coefficients [0.012], no interior
\* threshold) appended after the whole-domain region
OverrideRegion(v) ==
    [lower |-> Lit(IF v = "hagibis" THEN <<-20790, -82690>> ELSE <<12500, 2500>>),
     upper |-> Lit(IF v = "hagibis" THEN <<28620, -19780>> ELSE <<14500, 4500>>),
     depths |-> <<PosInf, NegInf>>,
     coefficients |-> <<12>>]

ScenarioD(v) ==
    [AsWritten(v) EXCEPT !.edit = "D",
                         !.friction = Append(FrictionList(v), OverrideRegion(v))]

StyleScenarios ==
    { [AsWritten(v) EXCEPT !.edit = "style", !.output_style = os,
                           !.checkpt_style = cs] :
        v \in Variants, os \in OutputStyles, cs \in CheckptStyles }

WrittenScenarios == { AsWritten(v) : v \in Variants }

EditedScenarios ==
    StyleScenarios \cup {ScenarioB}
        \cup { ScenarioC(v) : v \in Variants } \cup { ScenarioD(v) : v \in Variants }

\* sys.argv[1] when given, else the default 'geoclaw'
ClawPkgs == {"geoclaw", "GeoClaw", "amrclaw"}

\* Lower comparing the argument as given, without str.lower()
Lower_AsGiven(str) == str

\* str.lower() on the package names above
Lower(str) == IF str = "GeoClaw" THEN "geoclaw" ELSE str

\* ------------------------------------------------------------------------
\* State
\* ------------------------------------------------------------------------
VARIABLES
    claw_pkg,        \* the argument of setrun
    scn,             \* the literals of the script being run
    pc,              \* position in the script
    idx,             \* number of the next entry to append at a list position
    err,             \* the exception that ended the run, or "none"
    clawdata,        \* rundata.clawdata: attribute -> value
    amrdata,         \* rundata.amrdata
    geo_data,        \* rundata.geo_data
    refinement_data, \* rundata.refinement_data
    surge_data,      \* rundata.surge_data
    regions,         \* rundata.regiondata.regions
    gauges,          \* rundata.gaugedata.gauges
    topofiles,       \* rundata.topo_data.topofiles
    dtopofiles,      \* rundata.dtopo_data.dtopofiles
    qinit_data,      \* rundata.qinit_data: qinit_type, qinitfiles, force_dry_list
    fixedgrids,      \* rundata.fixed_grid_data.fixedgrids
    fgmax_data,      \* rundata.fgmax_data: fgmax_grids, num_fgmax_val
    friction_data,   \* rundata.friction_data: variable_friction, friction_regions
    written,         \* the data files rundata.write() has emitted
    fric_query,      \* the solver's last friction lookup: point, depth, coefficient
    fg,              \* the solver's record of one monitored fgmax point
    cur,             \* identity of the ClawRunData object the running call works on
    kept,            \* the specification an earlier call of setrun returned
    setgeo_calls     \* further calls of setgeo made on the current rundata

buildvars ==
    <<claw_pkg, scn, pc, idx, err, clawdata, amrdata, geo_data, refinement_data,
      surge_data, regions, gauges, topofiles, dtopofiles, qinit_data,
      fixedgrids, fgmax_data, friction_data, written>>

solvervars == <<fric_query, fg>>

procvars == <<cur, kept, setgeo_calls>>

vars == <<buildvars, solvervars, procvars>>

rundata ==
    [clawdata |-> clawdata, amrdata |-> amrdata, geo_data |-> geo_data,
     refinement_data |-> refinement_data, surge_data |-> surge_data,
     regions |-> regions, gauges |-> gauges, topofiles |-> topofiles,
     dtopofiles |-> dtopofiles, qinit_data |-> qinit_data,
     fixedgrids |-> fixedgrids, fgmax_data |-> fgmax_data,
     friction_data |-> friction_data]

\* A rundata as data.ClawRunData(claw_pkg, num_dim) constructs it: clawdata
\* holds the per-axis lists the script assigns into, every registry is empty.
ClawRunData ==
    [clawdata |-> ("lower" :> <<0, 0>>) @@ ("upper" :> <<1, 1>>)
                     @@ ("num_cells" :> <<0, 0>>),
     amrdata |-> NoAttrs, geo_data |-> NoAttrs, refinement_data |-> NoAttrs,
     surge_data |-> NoAttrs, regions |-> <<>>, gauges |-> <<>>,
     topofiles |-> <<>>, dtopofiles |-> <<>>,
     qinit_data |-> [force_dry_list |-> <<>>], fixedgrids |-> <<>>,
     fgmax_data |-> [fgmax_grids |-> <<>>],
     friction_data |-> [friction_regions |-> <<>>]]

\* no specification of an earlier call is held
NoKept == [id |-> 0, rd |-> ClawRunData]

\* NewObject with rundata constructed once at module level instead of
\* inside setrun: every call works on that one object
NewObject_ModuleLevel(id) == id

\* the object a call of data.ClawRunData(...) inside setrun returns when
\* the last one constructed was object id: a new object
NewObject(id) == id + 1

\* Python's reference semantics: kept.rd and rundata are the same object when
\* their identities agree, and a change made through one name is then seen
\* through the other.
Follow ==
    /\ cur' = cur
    /\ setgeo_calls' = setgeo_calls
    /\ kept' = IF kept.id = cur THEN [kept EXCEPT !.rd = rundata'] ELSE kept

\* The positions of the script, in program order.
Order ==
    <<"main", "domain", "system", "t0", "output_style", "output_branch",
      "checkpt_style", "checkpt_branch", "amr_levels", "aux_type", "amr_flags",
      "regions", "gauges", "physics", "refinement", "topo_reset", "topo",
      "dtopo_qinit", "force_dry", "fixedgrids", "fgmax", "num_fgmax_val",
      "surge", "variable_friction", "friction_regions", "return", "write",
      "written">>

\* the rundata object exists: ClawRunData has been constructed
Constructed == pc # "main"

\* How many statements a position of straight-line appends holds.
Count(p, s) ==
    CASE p = "regions" -> Len(RegionLevels(s.variant))
      [] p = "gauges" -> Len(GaugeList(s.variant))
      [] p = "topo" -> Len(TopoList(s.variant))
      [] p = "force_dry" -> Len(ForceDryList(s.variant))
      [] p = "fgmax" -> Len(FgmaxList(s.variant))
      [] p = "friction_regions" -> Len(s.friction)
      [] OTHER -> 1

IndexOf(p) == CHOOSE i \in DOMAIN Order : Order[i] = p

\* The next position that holds a statement.
RECURSIVE SkipEmpty(_, _)
SkipEmpty(i, s) ==
    IF i >= Len(Order) \/ Count(Order[i], s) > 0 THEN Order[i] ELSE SkipEmpty(i + 1, s)

After(p, s) == SkipEmpty(IndexOf(p) + 1, s)

\* Leave a list position after its last append, else stay for the next one.
Advance(p, s, i) == IF i >= Count(p, s) THEN After(p, s) ELSE p

\* ------------------------------------------------------------------------
\* The operations of the scripts on rundata's objects
\* ------------------------------------------------------------------------
\* OutputBranch with the second test an `if` of its own and the list
\* assignment outside it: output_times is assigned in every mode
OutputBranch_ListAlways(cd, s) ==
    LET c1 == IF cd["output_style"] = 1
              THEN SetAttr(SetAttr(cd, "num_output_times", 121), "output_t0", TRUE)
              ELSE cd
        c2 == SetAttr(c1, "output_times", s.output_times)
    IN  IF cd["output_style"] = 3
        THEN SetAttr(SetAttr(SetAttr(c2, "output_step_interval", 1),
                             "total_steps", TotalSteps(s.variant)),
                     "output_t0", TRUE)
        ELSE c2

\* if output_style == 1 / elif == 2 / elif == 3
OutputBranch(cd, s) ==
    IF cd["output_style"] = 1
    THEN SetAttr(SetAttr(cd, "num_output_times", 121), "output_t0", TRUE)
    ELSE IF cd["output_style"] = 2
    THEN SetAttr(cd, "output_times", s.output_times)
    ELSE IF cd["output_style"] = 3
    THEN SetAttr(SetAttr(SetAttr(cd, "output_step_interval", 1),
                         "total_steps", TotalSteps(s.variant)),
                 "output_t0", TRUE)
    ELSE cd

\* np.abs
Abs(x) == IF x < 0 THEN -x ELSE x

\* if checkpt_style == 0 / elif np.abs(checkpt_style) == 1 / == 2 / == 3
CheckptBranch(cd) ==
    IF cd["checkpt_style"] = 0
    THEN cd
    ELSE IF Abs(cd["checkpt_style"]) = 1
    THEN cd
    ELSE IF Abs(cd["checkpt_style"]) = 2
    THEN SetAttr(cd, "checkpt_times", <<10, 15>>)
    ELSE IF Abs(cd["checkpt_style"]) = 3
    THEN SetAttr(cd, "checkpt_interval", 5)
    ELSE cd

\* regions.append([minlevel, maxlevel, t0, tfinal, lower[0], upper[0], lower[1], upper[1]])
add_region(rs, levels, cd) ==
    Append(rs, <<levels[1], levels[2], cd["t0"], cd["tfinal"],
                 cd["lower"][1], cd["upper"][1], cd["lower"][2], cd["upper"][2]>>)

\* rundata.gaugedata.gauges.append([id, x, y, t1, t2])
add_gauge(gs, g) == Append(gs, g)

\* add_topography with the window written like that of the gauges, [t0, 1.e10]
add_topography_OpenEnd(ts, e, cd) ==
    Append(ts, <<e[1], e[2], e[3], cd["t0"], T1e10, e[4]>>)

\* topo_data.topofiles.append([topotype, minlevel, maxlevel, t0, tfinal, fname])
add_topography(ts, e, cd) ==
    Append(ts, <<e[1], e[2], e[3], cd["t0"], cd["tfinal"], e[4]>>)

\* rundata.fgmax_data.fgmax_grids.append(fg)
add_fgmax_grid(fd, grid) == [fd EXCEPT !.fgmax_grids = Append(@, grid)]

\* add_friction_region inserting at the front of the list
add_friction_region_Prepend(fd, r) == [fd EXCEPT !.friction_regions = <<r>> \o @]

\* data.friction_regions.append([lower, upper, depths, coefficients])
add_friction_region(fd, r) == [fd EXCEPT !.friction_regions = Append(@, r)]

\* ------------------------------------------------------------------------
\* The solver's reading of the written specification.  The solver is not
\* part of the scripts; these definitions follow the description of the
\* friction table and of the fgmax arrival algorithm in the specification.
\* ------------------------------------------------------------------------
\* bounds of the solver part of the model
MaxDepth == 3
MaxSamples == 4
PreSamples == 1

None == -1

NoQuery == [p |-> <<>>, h |-> 0, n |-> None]

NoSamples ==
    [grid |-> 0, j |-> 0, t |-> None, h |-> None, baseline |-> None,
     arrived |-> FALSE, arrival_time |-> None, hmax |-> None]

\* the corner a friction region's bound denotes
Deref(b, cd) == IF b.kind = "ref" THEN cd[b.attr] ELSE b.val

\* the rectangle of region r contains point p
Covers(r, p, cd) ==
    /\ Deref(r.lower, cd)[1] <= p[1] /\ p[1] <= Deref(r.upper, cd)[1]
    /\ Deref(r.lower, cd)[2] <= p[2] /\ p[2] <= Deref(r.upper, cd)[2]

\* threshold d lies above h / at or below h
Above(d, h) == d.k = "inf" \/ (d.k = "fin" /\ d.v > h)
AtOrBelow(d, h) == d.k = "ninf" \/ (d.k = "fin" /\ d.v <= h)

\* the coefficient of region r for depth h: thresholds descend, coefficient
\* k belongs to the bracket between thresholds k and k + 1
BracketCoeff(r, h) ==
    LET ks == { k \in DOMAIN r.coefficients :
                  /\ k + 1 \in DOMAIN r.depths
                  /\ Above(r.depths[k], h)
                  /\ AtOrBelow(r.depths[k + 1], h) }
    IN  IF ks = {} THEN None ELSE r.coefficients[CHOOSE k \in ks : \A m \in ks : k <= m]

\* regions are evaluated in list order, every matching region overwriting
\* the coefficient found so far
RECURSIVE ScanRegions(_, _, _, _, _)
ScanRegions(regs, p, h, cd, n) ==
    IF regs = <<>> THEN n
    ELSE LET r == Head(regs)
             c == IF Covers(r, p, cd) THEN BracketCoeff(r, h) ELSE None
         IN  ScanRegions(Tail(regs), p, h, cd, IF c = None THEN n ELSE c)

\* the effective coefficient at p for depth h
friction_at(rd, p, h) ==
    ScanRegions(rd.friction_data.friction_regions, p, h, rd.clawdata,
                rd.geo_data["manning_coefficient"])

\* points and depths the lookups are tried at: inside the sub-rectangle of
\* Scenario D, and inside the domain but outside that sub-rectangle
ProbePoints(v) ==
    IF v = "hagibis" THEN {<<0, -50000>>, <<-500000, 0>>}
    ELSE {<<13000, 3000>>, <<12100, 2300>>}

ProbeDepths == {-5, 0, 5}

Max2(a, b) == IF a >= b THEN a ELSE b

\* FgmaxUpdate with the running maximum no longer updated once the point
\* has arrived
FgmaxUpdate_StopsAtArrival(st, g, t, d) ==
    IF t < g.tstart_max \/ t > g.tend_max
    THEN [st EXCEPT !.j = @ + 1, !.t = t, !.h = d]
    ELSE LET base == IF st.baseline = None THEN d ELSE st.baseline
             now == d - base > g.arrival_tol
         IN  [st EXCEPT !.j = @ + 1, !.t = t, !.h = d,
                        !.baseline = base,
                        !.hmax = IF st.arrived THEN @ ELSE Max2(@, d),
                        !.arrived = @ \/ now,
                        !.arrival_time = IF ~st.arrived /\ now THEN t ELSE @]

\* FgmaxUpdate with the arrival test not strict (>= arrival_tol)
FgmaxUpdate_AtOrAbove(st, g, t, d) ==
    IF t < g.tstart_max \/ t > g.tend_max
    THEN [st EXCEPT !.j = @ + 1, !.t = t, !.h = d]
    ELSE LET base == IF st.baseline = None THEN d ELSE st.baseline
             now == d - base >= g.arrival_tol
         IN  [st EXCEPT !.j = @ + 1, !.t = t, !.h = d,
                        !.baseline = base,
                        !.hmax = Max2(@, d),
                        !.arrived = @ \/ now,
                        !.arrival_time = IF ~st.arrived /\ now THEN t ELSE @]

\* FgmaxUpdate with the arrival flag and time recomputed from every sample
FgmaxUpdate_Recomputed(st, g, t, d) ==
    IF t < g.tstart_max \/ t > g.tend_max
    THEN [st EXCEPT !.j = @ + 1, !.t = t, !.h = d]
    ELSE LET base == IF st.baseline = None THEN d ELSE st.baseline
             now == d - base > g.arrival_tol
         IN  [st EXCEPT !.j = @ + 1, !.t = t, !.h = d,
                        !.baseline = base,
                        !.hmax = Max2(@, d),
                        !.arrived = now,
                        !.arrival_time = IF now THEN t ELSE None]

\* one sample of a monitored point of grid g at time t with depth d: outside
\* the active window nothing is recorded; inside, the baseline is the depth
\* at the window start, the running maximum is updated, and the point
\* arrives at the first sample whose depth exceeds baseline + arrival_tol
FgmaxUpdate(st, g, t, d) ==
    IF t < g.tstart_max \/ t > g.tend_max
    THEN [st EXCEPT !.j = @ + 1, !.t = t, !.h = d]
    ELSE LET base == IF st.baseline = None THEN d ELSE st.baseline
             now == d - base > g.arrival_tol
         IN  [st EXCEPT !.j = @ + 1, !.t = t, !.h = d,
                        !.baseline = base,
                        !.hmax = Max2(@, d),
                        !.arrived = @ \/ now,
                        !.arrival_time = IF ~st.arrived /\ now THEN t ELSE @]

\* the time of sample number j (0-based) of grid g: the dt_check cadence,
\* PreSamples samples ahead of the window start
SampleTime(g, j) == g.tstart_max + (j - PreSamples) * g.dt_check

\* ------------------------------------------------------------------------
\* Init and the steps of the scripts
\* ------------------------------------------------------------------------
InitWith(scenarios) ==
    /\ claw_pkg \in ClawPkgs
    /\ scn \in scenarios
    /\ pc = "main"
    /\ idx = 1
    /\ err = "none"
    /\ clawdata = NoAttrs
    /\ amrdata = NoAttrs
    /\ geo_data = NoAttrs
    /\ refinement_data = NoAttrs
    /\ surge_data = NoAttrs
    /\ regions = <<>>
    /\ gauges = <<>>
    /\ topofiles = <<>>
    /\ dtopofiles = <<>>
    /\ qinit_data = [force_dry_list |-> <<>>]
    /\ fixedgrids = <<>>
    /\ fgmax_data = [fgmax_grids |-> <<>>]
    /\ friction_data = [friction_regions |-> <<>>]
    /\ written = <<>>
    /\ fric_query = NoQuery
    /\ fg = NoSamples
    /\ cur = 1
    /\ kept = NoKept
    /\ setgeo_calls = 0

Init == InitWith(WrittenScenarios)

InitScenarios == InitWith(WrittenScenarios \cup EditedScenarios)

At(p) == pc = p /\ err = "none"

Goto(p) == pc' = After(p, scn) /\ idx' = 1

\* __main__ calls setrun: the assert on claw_pkg, then
\* rundata = data.ClawRunData(claw_pkg, num_dim) with num_dim = 2, whose
\* clawdata holds the per-axis lists the script assigns into.
CallSetrun ==
    /\ At("main")
    /\ IF Lower(claw_pkg) = "geoclaw"
       THEN /\ clawdata' = ("lower" :> <<0, 0>>) @@ ("upper" :> <<1, 1>>)
                              @@ ("num_cells" :> <<0, 0>>)
            /\ Goto("main")
            /\ err' = err
       ELSE /\ err' = "AssertionError"
            /\ UNCHANGED <<pc, idx, clawdata>>
    /\ UNCHANGED <<claw_pkg, scn, amrdata, geo_data, refinement_data, surge_data,
                   regions, gauges, topofiles, dtopofiles, qinit_data, fixedgrids,
                   fgmax_data, friction_data, written, solvervars>>
    /\ Follow

OnlyClawdata ==
    UNCHANGED <<claw_pkg, scn, err, amrdata, geo_data, refinement_data, surge_data,
                regions, gauges, topofiles, dtopofiles, qinit_data, fixedgrids,
                fgmax_data, friction_data, written, solvervars>>
    /\ Follow

\* clawdata.num_dim = num_dim; lower[0], upper[0], lower[1], upper[1],
\* num_cells[0], num_cells[1] assigned one by one
SetDomain(cd, lo, up, nc) ==
    LET l == SetItem(SetItem(cd["lower"], 1, lo[1]), 2, lo[2])
        u == SetItem(SetItem(cd["upper"], 1, up[1]), 2, up[2])
        n == SetItem(SetItem(cd["num_cells"], 1, nc[1]), 2, nc[2])
    IN  SetAttr(SetAttr(SetAttr(SetAttr(cd, "num_dim", 2), "lower", l), "upper", u),
                "num_cells", n)

SpatialDomain ==
    /\ At("domain")
    /\ clawdata' = SetDomain(clawdata, DomainLower(scn.variant),
                             DomainUpper(scn.variant), NumCells(scn.variant))
    /\ Goto("domain")
    /\ OnlyClawdata

SizeOfSystem ==
    /\ At("system")
    /\ clawdata' = SetAttr(SetAttr(SetAttr(clawdata, "num_eqn", 3),
                                   "num_aux", NumAux(scn.variant)),
                           "capa_index", CapaIndex(scn.variant))
    /\ Goto("system")
    /\ OnlyClawdata

InitialTime ==
    /\ At("t0")
    /\ clawdata' = SetAttr(SetAttr(clawdata, "t0", 0), "restart", FALSE)
    /\ Goto("t0")
    /\ OnlyClawdata

SetOutputStyle ==
    /\ At("output_style")
    /\ clawdata' = SetAttr(SetAttr(clawdata, "output_style", scn.output_style),
                           "tfinal", scn.tfinal)
    /\ Goto("output_style")
    /\ OnlyClawdata

OutputTimesBranch ==
    /\ At("output_branch")
    /\ clawdata' = OutputBranch(clawdata, scn)
    /\ Goto("output_branch")
    /\ OnlyClawdata

SetCheckptStyle ==
    /\ At("checkpt_style")
    /\ clawdata' = SetAttr(clawdata, "checkpt_style", scn.checkpt_style)
    /\ Goto("checkpt_style")
    /\ OnlyClawdata

CheckpointBranch ==
    /\ At("checkpt_branch")
    /\ clawdata' = CheckptBranch(clawdata)
    /\ Goto("checkpt_branch")
    /\ OnlyClawdata

OnlyAmrdata ==
    UNCHANGED <<claw_pkg, scn, err, clawdata, geo_data, refinement_data, surge_data,
                regions, gauges, topofiles, dtopofiles, qinit_data, fixedgrids,
                fgmax_data, friction_data, written, solvervars>>
    /\ Follow

\* amrdata.amr_levels_max and the three refinement-ratio lists
SetAmrLevels(ad, s) ==
    SetAttr(SetAttr(SetAttr(SetAttr(ad, "amr_levels_max", AmrLevelsMax(s.variant)),
                            "refinement_ratios_x", RatiosX(s.variant)),
                    "refinement_ratios_y", RatiosY(s.variant)),
            "refinement_ratios_t", RatiosT(s.variant))

AmrLevels ==
    /\ At("amr_levels")
    /\ amrdata' = SetAmrLevels(amrdata, scn)
    /\ Goto("amr_levels")
    /\ OnlyAmrdata

SetAuxType ==
    /\ At("aux_type")
    /\ amrdata' = SetAttr(amrdata, "aux_type", AuxType(scn.variant))
    /\ Goto("aux_type")
    /\ OnlyAmrdata

AmrFlags ==
    /\ At("amr_flags")
    /\ amrdata' =
         SetAttr(SetAttr(SetAttr(SetAttr(SetAttr(amrdata, "flag_richardson", FALSE),
                                         "flag2refine", TRUE),
                                 "regrid_interval", 3),
                         "regrid_buffer_width", RegridBufferWidth(scn.variant)),
                 "clustering_cutoff", 7)
    /\ Goto("amr_flags")
    /\ OnlyAmrdata

AppendRegion ==
    /\ At("regions")
    /\ idx <= Count("regions", scn)
    /\ regions' = add_region(regions, RegionLevels(scn.variant)[idx], clawdata)
    /\ pc' = Advance("regions", scn, idx)
    /\ idx' = IF pc' = pc THEN idx + 1 ELSE 1
    /\ UNCHANGED <<claw_pkg, scn, err, clawdata, amrdata, geo_data, refinement_data,
                   surge_data, gauges, topofiles, dtopofiles, qinit_data, fixedgrids,
                   fgmax_data, friction_data, written, solvervars>>
    /\ Follow

AppendGauge ==
    /\ At("gauges")
    /\ idx <= Count("gauges", scn)
    /\ gauges' = add_gauge(gauges, GaugeList(scn.variant)[idx])
    /\ pc' = Advance("gauges", scn, idx)
    /\ idx' = IF pc' = pc THEN idx + 1 ELSE 1
    /\ UNCHANGED <<claw_pkg, scn, err, clawdata, amrdata, geo_data, refinement_data,
                   surge_data, regions, topofiles, dtopofiles, qinit_data, fixedgrids,
                   fgmax_data, friction_data, written, solvervars>>
    /\ Follow

\* setgeo: rundata.geo_data exists (ClawRunData of package geoclaw), so the
\* try succeeds; then the physics and forcing options.
Physics ==
    /\ At("physics")
    /\ geo_data' =
         SetAttr(SetAttr(SetAttr(SetAttr(SetAttr(geo_data, "coordinate_system",
                                                 scn.coordinate_system),
                                         "coriolis_forcing", FALSE),
                                 "friction_forcing", TRUE),
                         "manning_coefficient", 25),
                 "sea_level", 0)
    /\ Goto("physics")
    /\ UNCHANGED <<claw_pkg, scn, err, clawdata, amrdata, refinement_data, surge_data,
                   regions, gauges, topofiles, dtopofiles, qinit_data, fixedgrids,
                   fgmax_data, friction_data, written, solvervars>>
    /\ Follow

\* refine_data.max_level_deep
MaxLevelDeep(v) == IF v = "hagibis" THEN 2 ELSE 1

RefinementCriteria ==
    /\ At("refinement")
    /\ refinement_data' =
         SetAttr(SetAttr(refinement_data, "max_level_deep", MaxLevelDeep(scn.variant)),
                 "variable_dt_refinement_ratios", TRUE)
    /\ Goto("refinement")
    /\ UNCHANGED <<claw_pkg, scn, err, clawdata, amrdata, geo_data, surge_data,
                   regions, gauges, topofiles, dtopofiles, qinit_data, fixedgrids,
                   fgmax_data, friction_data, written, solvervars>>
    /\ Follow

OnlyTopofiles ==
    UNCHANGED <<claw_pkg, scn, err, clawdata, amrdata, geo_data, refinement_data,
                surge_data, regions, gauges, dtopofiles, qinit_data, fixedgrids,
                fgmax_data, friction_data, written, solvervars>>
    /\ Follow

\* TopoReset without the assignment of the empty list, the entries being
\* appended to the list as it stands (as for fgmax_grids)
TopoReset_Kept ==
    /\ At("topo_reset")
    /\ topofiles' = topofiles
    /\ Goto("topo_reset")
    /\ OnlyTopofiles

\* topo_data.topofiles = []
TopoReset ==
    /\ At("topo_reset")
    /\ topofiles' = <<>>
    /\ Goto("topo_reset")
    /\ OnlyTopofiles

AppendTopo ==
    /\ At("topo")
    /\ idx <= Count("topo", scn)
    /\ topofiles' = add_topography(topofiles, TopoList(scn.variant)[idx], clawdata)
    /\ pc' = Advance("topo", scn, idx)
    /\ idx' = IF pc' = pc THEN idx + 1 ELSE 1
    /\ OnlyTopofiles

\* dtopo_data.dtopofiles = []; qinit_data.qinit_type = 0; qinit_data.qinitfiles = []
DtopoQinit ==
    /\ At("dtopo_qinit")
    /\ dtopofiles' = <<>>
    /\ qinit_data' = [force_dry_list |-> qinit_data.force_dry_list,
                      qinit_type |-> 0, qinitfiles |-> <<>>]
    /\ Goto("dtopo_qinit")
    /\ UNCHANGED <<claw_pkg, scn, err, clawdata, amrdata, geo_data, refinement_data,
                   surge_data, regions, gauges, topofiles, fixedgrids, fgmax_data,
                   friction_data, written, solvervars>>
    /\ Follow

\* rundata.qinit_data.force_dry_list.append(force_dry)
AppendForceDry ==
    /\ At("force_dry")
    /\ idx <= Count("force_dry", scn)
    /\ qinit_data' = [qinit_data EXCEPT
                        !.force_dry_list = Append(@, ForceDryList(scn.variant)[idx])]
    /\ pc' = Advance("force_dry", scn, idx)
    /\ idx' = IF pc' = pc THEN idx + 1 ELSE 1
    /\ UNCHANGED <<claw_pkg, scn, err, clawdata, amrdata, geo_data, refinement_data,
                   surge_data, regions, gauges, topofiles, dtopofiles, fixedgrids,
                   fgmax_data, friction_data, written, solvervars>>
    /\ Follow

\* rundata.fixed_grid_data.fixedgrids = []
FixedGrids ==
    /\ At("fixedgrids")
    /\ fixedgrids' = <<>>
    /\ Goto("fixedgrids")
    /\ UNCHANGED <<claw_pkg, scn, err, clawdata, amrdata, geo_data, refinement_data,
                   surge_data, regions, gauges, topofiles, dtopofiles, qinit_data,
                   fgmax_data, friction_data, written, solvervars>>
    /\ Follow

OnlyFgmax ==
    UNCHANGED <<claw_pkg, scn, err, clawdata, amrdata, geo_data, refinement_data,
                surge_data, regions, gauges, topofiles, dtopofiles, qinit_data,
                fixedgrids, friction_data, written, solvervars>>
    /\ Follow

AppendFgmax ==
    /\ At("fgmax")
    /\ idx <= Count("fgmax", scn)
    /\ fgmax_data' = add_fgmax_grid(fgmax_data, FgmaxList(scn.variant)[idx])
    /\ pc' = Advance("fgmax", scn, idx)
    /\ idx' = IF pc' = pc THEN idx + 1 ELSE 1
    /\ OnlyFgmax

\* rundata.fgmax_data.num_fgmax_val = 5
SetNumFgmaxVal ==
    /\ At("num_fgmax_val")
    /\ fgmax_data' = [fgmax_grids |-> fgmax_data.fgmax_grids, num_fgmax_val |-> 5]
    /\ Goto("num_fgmax_val")
    /\ OnlyFgmax

SurgeData ==
    /\ At("surge")
    /\ surge_data' =
         SetAttr(SetAttr(SetAttr(SetAttr(SetAttr(surge_data, "wind_forcing", TRUE),
                                         "drag_law", DragLaw(scn.variant)),
                                 "pressure_forcing", TRUE),
                         "storm_type", StormType(scn.variant)),
                 "display_landfall_time", TRUE)
    /\ Goto("surge")
    /\ UNCHANGED <<claw_pkg, scn, err, clawdata, amrdata, geo_data, refinement_data,
                   regions, gauges, topofiles, dtopofiles, qinit_data, fixedgrids,
                   fgmax_data, friction_data, written, solvervars>>
    /\ Follow

OnlyFriction ==
    UNCHANGED <<claw_pkg, scn, err, clawdata, amrdata, geo_data, refinement_data,
                surge_data, regions, gauges, topofiles, dtopofiles, qinit_data,
                fixedgrids, fgmax_data, written, solvervars>>
    /\ Follow

\* data.variable_friction = True
VariableFriction ==
    /\ At("variable_friction")
    /\ friction_data' = [friction_regions |-> friction_data.friction_regions,
                         variable_friction |-> TRUE]
    /\ Goto("variable_friction")
    /\ OnlyFriction

AppendFrictionRegion ==
    /\ At("friction_regions")
    /\ idx <= Count("friction_regions", scn)
    /\ friction_data' = add_friction_region(friction_data, scn.friction[idx])
    /\ pc' = Advance("friction_regions", scn, idx)
    /\ idx' = IF pc' = pc THEN idx + 1 ELSE 1
    /\ OnlyFriction

\* setgeo returns rundata to setrun, setrun returns it to __main__
Return ==
    /\ At("return")
    /\ Goto("return")
    /\ UNCHANGED <<claw_pkg, scn, err, clawdata, amrdata, geo_data, refinement_data,
                   surge_data, regions, gauges, topofiles, dtopofiles, qinit_data,
                   fixedgrids, fgmax_data, friction_data, written, solvervars>>
    /\ Follow

\* Write with rundata.write() called at the end of setrun as well as in
\* __main__
Write_AlsoInSetrun ==
    /\ At("write")
    /\ written' = Append(Append(written, rundata), rundata)
    /\ Goto("write")
    /\ UNCHANGED <<claw_pkg, scn, err, clawdata, amrdata, geo_data, refinement_data,
                   surge_data, regions, gauges, topofiles, dtopofiles, qinit_data,
                   fixedgrids, fgmax_data, friction_data, solvervars>>
    /\ Follow

\* rundata.write(): the data files are emitted from rundata as it stands
Write ==
    /\ At("write")
    /\ written' = Append(written, rundata)
    /\ Goto("write")
    /\ UNCHANGED <<claw_pkg, scn, err, clawdata, amrdata, geo_data, refinement_data,
                   surge_data, regions, gauges, topofiles, dtopofiles, qinit_data,
                   fixedgrids, fgmax_data, friction_data, solvervars>>
    /\ Follow

\* the solver looks up the friction coefficient of a point
LookupFriction ==
    /\ At("written")
    /\ \E p \in ProbePoints(scn.variant), h \in ProbeDepths :
          fric_query' = [p |-> p, h |-> h, n |-> friction_at(written[1], p, h)]
    /\ UNCHANGED <<buildvars, fg, procvars>>

\* the solver samples the monitored point of one fgmax grid
SampleFgmax ==
    /\ At("written")
    /\ fg.j < MaxSamples
    /\ \E i \in DOMAIN written[1].fgmax_data.fgmax_grids, d \in 0..MaxDepth :
          LET g == written[1].fgmax_data.fgmax_grids[i]
              t == SampleTime(g, fg.j)
          IN  /\ fg.grid \in {0, i}
              /\ t <= written[1].clawdata["tfinal"]
              /\ fg' = [FgmaxUpdate(fg, g, t, d) EXCEPT !.grid = i]
    /\ UNCHANGED <<buildvars, fric_query, procvars>>

\* ------------------------------------------------------------------------
\* A caller that uses the functions of the script more than once in one
\* process: setrun called a second time, setgeo applied again to the
\* rundata it returned, the registry of the first specification appended to.
\* ------------------------------------------------------------------------
\* bound on the further calls of setgeo on one rundata
MaxAgain == 1

\* the gauge the caller appends to the specification it holds
CallerGauge == <<99, 0, 0, 0, T1e10>>

\* rundata = setgeo(rundata) once more on the rundata setgeo returned
SetgeoAgain ==
    /\ At("return")
    /\ setgeo_calls < MaxAgain
    /\ setgeo_calls' = setgeo_calls + 1
    /\ pc' = "physics"
    /\ idx' = 1
    /\ UNCHANGED <<claw_pkg, scn, err, clawdata, amrdata, geo_data, refinement_data,
                   surge_data, regions, gauges, topofiles, dtopofiles, qinit_data,
                   fixedgrids, fgmax_data, friction_data, written, solvervars,
                   cur, kept>>

\* the caller keeps the rundata setrun returned and calls setrun again: the
\* assert passes as before and data.ClawRunData(claw_pkg, num_dim) gives
\* the object the new call fills in
SetrunAgain ==
    /\ At("write")
    /\ kept = NoKept
    /\ LET id == NewObject(cur)
           rd == IF id = cur THEN rundata ELSE ClawRunData
       IN  /\ cur' = id
           /\ kept' = [id |-> cur, rd |-> rundata]
           /\ clawdata' = rd.clawdata
           /\ amrdata' = rd.amrdata
           /\ geo_data' = rd.geo_data
           /\ refinement_data' = rd.refinement_data
           /\ surge_data' = rd.surge_data
           /\ regions' = rd.regions
           /\ gauges' = rd.gauges
           /\ topofiles' = rd.topofiles
           /\ dtopofiles' = rd.dtopofiles
           /\ qinit_data' = rd.qinit_data
           /\ fixedgrids' = rd.fixedgrids
           /\ fgmax_data' = rd.fgmax_data
           /\ friction_data' = rd.friction_data
    /\ setgeo_calls' = 0
    /\ pc' = After("main", scn)
    /\ idx' = 1
    /\ UNCHANGED <<claw_pkg, scn, err, written, solvervars>>

\* the caller appends a gauge to the gauge registry of the specification it
\* kept from the first call
AppendToKept ==
    /\ kept # NoKept
    /\ err = "none"
    /\ Len(kept.rd.gauges) <= Len(GaugeList(scn.variant))
    /\ kept' = [kept EXCEPT !.rd.gauges = add_gauge(@, CallerGauge)]
    /\ gauges' = IF kept.id = cur THEN add_gauge(gauges, CallerGauge) ELSE gauges
    /\ UNCHANGED <<claw_pkg, scn, pc, idx, err, clawdata, amrdata, geo_data,
                   refinement_data, surge_data, regions, topofiles, dtopofiles,
                   qinit_data, fixedgrids, fgmax_data, friction_data, written,
                   solvervars, cur, setgeo_calls>>

\* the steps of the script, from the call of setrun to rundata.write()
NextBuild ==
    \/ CallSetrun
    \/ SpatialDomain
    \/ SizeOfSystem
    \/ InitialTime
    \/ SetOutputStyle
    \/ OutputTimesBranch
    \/ SetCheckptStyle
    \/ CheckpointBranch
    \/ AmrLevels
    \/ SetAuxType
    \/ AmrFlags
    \/ AppendRegion
    \/ AppendGauge
    \/ Physics
    \/ RefinementCriteria
    \/ TopoReset
    \/ AppendTopo
    \/ DtopoQinit
    \/ AppendForceDry
    \/ FixedGrids
    \/ AppendFgmax
    \/ SetNumFgmaxVal
    \/ SurgeData
    \/ VariableFriction
    \/ AppendFrictionRegion
    \/ Return
    \/ Write

\* the script, then the solver reading what was written
Next ==
    \/ NextBuild
    \/ LookupFriction
    \/ SampleFgmax

Spec == Init /\ [][Next]_vars

SpecScenarios == InitScenarios /\ [][Next]_vars

\* the scripts as written, their functions used more than once (the solver
\* is not run)
NextReuse ==
    \/ NextBuild
    \/ SetgeoAgain
    \/ SetrunAgain
    \/ AppendToKept

SpecReuse == Init /\ [][NextReuse]_vars

\* ========================================================================
\* Properties
\* ========================================================================
RatioAttrs == {"refinement_ratios_x", "refinement_ratios_y", "refinement_ratios_t"}

AmrSet(ad) == IsSet(ad, "amr_levels_max") /\ \A a \in RatioAttrs : IsSet(ad, a)

\* the run went through rundata.write()
Written == written # <<>>

\* C1 as stated: each of the three refinement-ratio arrays has length exactly
\* amr_levels_max - 1, in rundata and in what is written.
C1_ExactLength ==
    /\ AmrSet(amrdata) =>
         \A a \in RatioAttrs : Len(amrdata[a]) = amrdata["amr_levels_max"] - 1
    /\ Written =>
         \A a \in RatioAttrs :
            Len(written[1].amrdata[a]) = written[1].amrdata["amr_levels_max"] - 1

\* C1 as amended: the three refinement-ratio arrays have one common length,
\* at least amr_levels_max - 1 (exactly that in hagibis); nothing validates
\* them: the run is never failed after the claw_pkg assert, and the arrays
\* are written as the script lists them, neither truncated nor padded.
C1_AtLeastLength ==
    /\ AmrSet(amrdata) =>
         /\ \A a \in RatioAttrs :
               /\ Len(amrdata[a]) >= amrdata["amr_levels_max"] - 1
               /\ Len(amrdata[a]) = Len(amrdata["refinement_ratios_x"])
         /\ scn.variant = "hagibis" =>
               Len(amrdata["refinement_ratios_x"]) = amrdata["amr_levels_max"] - 1
    /\ err # "none" => pc = "main"
    /\ Written =>
         /\ written[1].amrdata["refinement_ratios_x"] = RatiosX(scn.variant)
         /\ written[1].amrdata["refinement_ratios_y"] = RatiosY(scn.variant)
         /\ written[1].amrdata["refinement_ratios_t"] = RatiosT(scn.variant)

\* C1 witness: the haishen run is written with three ratios for two levels.
C1_Witness ==
    /\ Written
    /\ scn.variant = "haishen"
    /\ written[1].amrdata["amr_levels_max"] = 2
    /\ Len(written[1].amrdata["refinement_ratios_x"]) = 3

\* the level references of a rundata: <<minlevel, maxlevel>> pairs
LevelRefs(rd) ==
    { <<rd.topofiles[i][2], rd.topofiles[i][3]>> : i \in DOMAIN rd.topofiles }
        \cup { <<rd.regions[i][1], rd.regions[i][2]>> : i \in DOMAIN rd.regions }
        \cup { <<rd.fgmax_data.fgmax_grids[i].min_level_check,
                 rd.fgmax_data.fgmax_grids[i].min_level_check>> :
               i \in DOMAIN rd.fgmax_data.fgmax_grids }

\* C2 as stated: every level reference of the run specification (topography
\* entries, refinement regions, fgmax min_level_check) satisfies
\* 1 <= minlevel <= maxlevel <= amr_levels_max, and no specification with a
\* level reference outside [1, amr_levels_max] gets written.
C2_LevelsWithinMax ==
    /\ IsSet(amrdata, "amr_levels_max") =>
         \A r \in LevelRefs(rundata) :
            1 <= r[1] /\ r[1] <= r[2] /\ r[2] <= amrdata["amr_levels_max"]
    /\ Written =>
         \A r \in LevelRefs(written[1]) :
            1 <= r[1] /\ r[1] <= r[2] /\ r[2] <= written[1].amrdata["amr_levels_max"]

\* number of finite entries of a depth list (np.infty / -np.infty excluded)
RECURSIVE FiniteCount(_)
FiniteCount(ds) ==
    IF ds = <<>> THEN 0
    ELSE (IF Head(ds).k = "fin" THEN 1 ELSE 0) + FiniteCount(Tail(ds))

WellFormedRegion(r) == Len(r.coefficients) = FiniteCount(r.depths) + 1

\* regions whose coefficient count does not match their thresholds
MalformedRegions ==
    { [lower |-> Lit(<<0, 0>>), upper |-> Lit(<<1, 1>>), depths |-> ds,
       coefficients |-> cs] :
        ds \in {<<PosInf, Fin(0), NegInf>>, <<PosInf, NegInf>>},
        cs \in {<<30>>, <<30, 22>>, <<30, 12, 22>>} }
      \ { r \in [lower : {Lit(<<0, 0>>)}, upper : {Lit(<<1, 1>>)},
                 depths : {<<PosInf, Fin(0), NegInf>>, <<PosInf, NegInf>>},
                 coefficients : {<<30>>, <<30, 22>>, <<30, 12, 22>>}] :
            WellFormedRegion(r) }

\* C3 as stated: every friction region has one more coefficient than depth
\* thresholds, and adding a region that has not is refused, the table being
\* left unchanged.
C3_MalformedRefused ==
    /\ \A i \in DOMAIN friction_data.friction_regions :
          WellFormedRegion(friction_data.friction_regions[i])
    /\ pc # "main" =>
          \A r \in MalformedRegions :
             add_friction_region(friction_data, r) = friction_data

\* C3 as amended: every friction region setgeo appends has one more
\* coefficient than finite depth thresholds (one fewer than entries of its
\* depth list, which carries np.infty and -np.infty at its ends); the append
\* is unconditional: it adds whatever region it is given, malformed or not.
C3_AppendedRegionsWellFormed ==
    /\ \A i \in DOMAIN friction_data.friction_regions :
          LET r == friction_data.friction_regions[i]
          IN  /\ WellFormedRegion(r)
              /\ Len(r.coefficients) = Len(r.depths) - 1
    /\ pc # "main" =>
          \A r \in MalformedRegions :
             Len(add_friction_region(friction_data, r).friction_regions)
                = Len(friction_data.friction_regions) + 1

\* C3 witness: the whole-domain region with coefficients [0.030, 0.022] and
\* the single finite threshold 0.0 is in the written table.
C3_Witness ==
    /\ Written
    /\ Len(written[1].friction_data.friction_regions) = 1
    /\ written[1].friction_data.friction_regions[1].coefficients = <<30, 22>>
    /\ written[1].friction_data.friction_regions[1].depths = <<PosInf, Fin(0), NegInf>>

\* the calls of add_friction_region of the run, in call order, whose
\* rectangle contains p
CoveringCalls(p) == { i \in DOMAIN scn.friction : Covers(scn.friction[i], p, clawdata) }

LastOf(S) == CHOOSE i \in S : \A m \in S : m <= i

\* C4: friction lookup is last-wins: the coefficient the solver finds at a
\* point is the depth-bracket coefficient of the most recently added region
\* whose rectangle contains the point; a point only the first, whole-domain
\* region covers resolves through that region's table [0.030, 0.022].
C4_LastRegionWins ==
    fric_query # NoQuery =>
       LET cov == CoveringCalls(fric_query.p)
       IN  /\ cov # {}
           /\ fric_query.n = BracketCoeff(scn.friction[LastOf(cov)], fric_query.h)
           /\ cov = {1} => fric_query.n = (IF fric_query.h >= 0 THEN 30 ELSE 22)

\* C4 witness: with the override region of Scenario D added after the
\* whole-domain region, a point both cover resolves to 0.012.
C4_Witness ==
    /\ scn.edit = "D"
    /\ fric_query # NoQuery
    /\ CoveringCalls(fric_query.p) = {1, 2}
    /\ fric_query.n = 12

StrictlyIncreasing(ts) == \A i \in 1..(Len(ts) - 1) : ts[i] < ts[i + 1]

\* a valid explicit output list of a clawdata
ValidOutputList(cd) ==
    /\ cd["output_times"] # <<>>
    /\ StrictlyIncreasing(cd["output_times"])
    /\ \A i \in DOMAIN cd["output_times"] :
          cd["t0"] <= cd["output_times"][i] /\ cd["output_times"][i] <= cd["tfinal"]

\* C5 as stated: an explicit output list (output_style 2) is non-empty,
\* strictly increasing and within [t0, tfinal]; a list with a time beyond
\* tfinal fails validation, so it is neither kept in rundata nor written.
C5_ListAlwaysValid ==
    /\ IsSet(clawdata, "output_times") => ValidOutputList(clawdata)
    /\ Written /\ IsSet(written[1].clawdata, "output_times") =>
          ValidOutputList(written[1].clawdata)

\* C5 as amended: in the two scripts as written output_style is 2 and the
\* explicit list is non-empty, strictly increasing and within [t0, tfinal];
\* the script checks nothing: whatever list the output_style == 2 branch is
\* given is stored and written unchanged, also one reaching beyond tfinal.
C5_ListValidAsWritten ==
    /\ scn.edit = "none" /\ IsSet(clawdata, "output_style") =>
          clawdata["output_style"] = 2
    /\ scn.edit = "none" /\ IsSet(clawdata, "output_times") =>
          ValidOutputList(clawdata)
    /\ IsSet(clawdata, "output_times") => clawdata["output_times"] = scn.output_times
    /\ Written /\ scn.output_style = 2 =>
          written[1].clawdata["output_times"] = scn.output_times

\* C5 witness: the hagibis list of 122 hourly times, ending at tfinal, written.
C5_Witness ==
    /\ Written
    /\ scn = AsWritten("hagibis")
    /\ Len(written[1].clawdata["output_times"]) = 122
    /\ written[1].clawdata["output_times"][122] = written[1].clawdata["tfinal"]

\* the parameters that belong to one output mode / one checkpoint mode
OutputModeAttrs ==
    {"num_output_times", "output_times", "output_step_interval", "total_steps"}

CheckptModeAttrs == {"checkpt_times", "checkpt_interval"}

AttrsOfOutputMode(style) ==
    CASE style = 1 -> {"num_output_times"}
      [] style = 2 -> {"output_times"}
      [] style = 3 -> {"output_step_interval", "total_steps"}

AttrsOfCheckptMode(style) ==
    CASE style = 0 -> {}
      [] style \in {1, -1} -> {}
      [] style \in {2, -2} -> {"checkpt_times"}
      [] style \in {3, -3} -> {"checkpt_interval"}

\* the position is past position p of the script
Past(p) == IndexOf(pc) > IndexOf(p)

OneModeSet(cd) ==
    /\ IF IsSet(cd, "output_style") /\ (DOMAIN cd) \cap OutputModeAttrs # {}
       THEN (DOMAIN cd) \cap OutputModeAttrs = AttrsOfOutputMode(cd["output_style"])
       ELSE (DOMAIN cd) \cap OutputModeAttrs = {}
    /\ IF IsSet(cd, "checkpt_style") /\ (DOMAIN cd) \cap CheckptModeAttrs # {}
       THEN (DOMAIN cd) \cap CheckptModeAttrs = AttrsOfCheckptMode(cd["checkpt_style"])
       ELSE (DOMAIN cd) \cap CheckptModeAttrs = {}

\* C6: for every value of output_style and of checkpt_style exactly one
\* mode is active and only the parameters of the active mode are set on the
\* specification: none of the parameters of an inactive mode is set, before
\* or after the branch, in rundata or in what is written.
C6_OnlyActiveModeSet ==
    /\ OneModeSet(clawdata)
    /\ Past("output_branch") =>
          (DOMAIN clawdata) \cap OutputModeAttrs = AttrsOfOutputMode(scn.output_style)
    /\ Past("checkpt_branch") =>
          (DOMAIN clawdata) \cap CheckptModeAttrs = AttrsOfCheckptMode(scn.checkpt_style)
    /\ Written =>
          /\ (DOMAIN written[1].clawdata) \cap OutputModeAttrs
                = AttrsOfOutputMode(scn.output_style)
          /\ (DOMAIN written[1].clawdata) \cap CheckptModeAttrs
                = AttrsOfCheckptMode(scn.checkpt_style)

\* C6 witness: a run with output_style 3 and checkpt_style -2 is written
\* with the step parameters and the checkpoint list, and no output list.
C6_Witness ==
    /\ Written
    /\ written[1].clawdata["output_style"] = 3
    /\ written[1].clawdata["checkpt_style"] = -2
    /\ IsSet(written[1].clawdata, "total_steps")
    /\ IsSet(written[1].clawdata, "checkpt_times")
    /\ ~IsSet(written[1].clawdata, "output_times")

ValidGrid(lo, up, nc) == \A i \in 1..2 : lo[i] < up[i] /\ nc[i] > 0

\* domains tried on the assignment: <<lower, upper, num_cells>>
ProbeDomains ==
    { <<lo, up, nc>> : lo \in {<<0, 0>>, <<5, 0>>}, up \in {<<5, 5>>, <<0, 5>>},
                       nc \in {<<2, 2>>, <<0, 2>>, <<2, -1>>} }

BadDomains == { d \in ProbeDomains : ~ValidGrid(d[1], d[2], d[3]) }

GridOf(cd) == <<cd["lower"], cd["upper"], cd["num_cells"]>>

\* C7 as stated: every constructed grid has lower < upper and positive cell
\* counts on both axes, and constructing a grid with a non-positive extent
\* or cell count is refused, rundata keeping the grid it had.
C7_InvalidGridRefused ==
    /\ IsSet(clawdata, "num_dim") =>
          ValidGrid(clawdata["lower"], clawdata["upper"], clawdata["num_cells"])
    /\ Constructed /\ err = "none" =>
          \A d \in BadDomains :
             GridOf(SetDomain(clawdata, d[1], d[2], d[3])) = GridOf(clawdata)

\* C7 as amended: the grid of each script as written has lower < upper and
\* positive cell counts on both axes, the hagibis grid being the Scenario A
\* domain (lower (-1062000, -862000), upper (393570, 374870), cells
\* (599, 509), capa_index 0); the script assigns the bounds and counts item
\* by item without any check, so any values, valid or not, are stored and
\* no InvalidDomainError exists.
C7_GridValidAsWritten ==
    /\ IsSet(clawdata, "num_dim") =>
          /\ ValidGrid(clawdata["lower"], clawdata["upper"], clawdata["num_cells"])
          /\ scn.variant = "hagibis" =>
                GridOf(clawdata) = << <<-1062000, -862000>>, <<393570, 374870>>,
                                      <<599, 509>> >>
    /\ scn.variant = "hagibis" /\ IsSet(clawdata, "capa_index") =>
          clawdata["capa_index"] = 0
    /\ Written => GridOf(written[1].clawdata) = GridOf(clawdata)
    /\ Constructed /\ err = "none" =>
          \A d \in ProbeDomains :
             GridOf(SetDomain(clawdata, d[1], d[2], d[3])) = d

\* C7 witness: the Scenario A grid in the written hagibis specification.
C7_Witness ==
    /\ Written
    /\ scn.variant = "hagibis"
    /\ written[1].clawdata["upper"] = <<393570, 374870>>
    /\ written[1].clawdata["num_cells"] = <<599, 509>>
    /\ written[1].geo_data["coordinate_system"] = 1

CapacitySlots(rd) == { i \in DOMAIN rd.amrdata["aux_type"] : rd.amrdata["aux_type"][i] = "capacity" }

\* coordinate system and capacity slot of a complete rundata agree
CapacityAgrees(rd) ==
    /\ rd.geo_data["coordinate_system"] = 2 =>
          /\ rd.clawdata["capa_index"] # 0
          /\ CapacitySlots(rd) = {rd.clawdata["capa_index"]}
    /\ rd.geo_data["coordinate_system"] = 1 =>
          /\ rd.clawdata["capa_index"] = 0
          /\ CapacitySlots(rd) = {}

\* C8 as stated: coordinate system and capacity slot agree in every run
\* specification, a geographic specification without a capacity slot being
\* flagged by the validator instead of being written.
C8_AgreeOrFlagged ==
    /\ IsSet(geo_data, "coordinate_system") => CapacityAgrees(rundata)
    /\ Written => CapacityAgrees(written[1])

\* C8 as amended: in the two scripts as written coordinate system and
\* capacity slot agree (haishen: geographic, capa_index 2, aux slot 2 typed
\* 'capacity' and no other; hagibis: Cartesian, capa_index 0, no slot typed
\* 'capacity'); the three are independent assignments that nothing compares,
\* so a geographic specification without a capacity slot is written
\* unflagged.
C8_AgreeAsWritten ==
    /\ scn.edit = "none" /\ IsSet(geo_data, "coordinate_system") =>
          CapacityAgrees(rundata)
    /\ scn.edit = "none" /\ Written => CapacityAgrees(written[1])
    /\ scn.edit = "B" /\ Past("physics") => err = "none" /\ ~CapacityAgrees(rundata)

\* C8 witness: the haishen specification written as geographic with
\* capa_index 2 and aux slot 2 typed 'capacity'.
C8_Witness ==
    /\ Written
    /\ scn = AsWritten("haishen")
    /\ written[1].geo_data["coordinate_system"] = 2
    /\ written[1].clawdata["capa_index"] = 2
    /\ written[1].amrdata["aux_type"][2] = "capacity"

GaugeIds(gs) == { gs[i][1] : i \in DOMAIN gs }

UniqueIds(gs) == \A i, j \in DOMAIN gs : gs[i][1] = gs[j][1] => i = j

\* gauges tried on the registry: every id of the scripts, at a new location
ProbeGauges == { <<id, 0, 0, 0, T1e10>> : id \in 1..13 }

\* C9 as stated: no two gauges of the registry share an id, and adding a
\* gauge with an id already present is refused, the registry being left
\* unchanged.
C9_DuplicateRefused ==
    /\ UniqueIds(gauges)
    /\ \A g \in ProbeGauges :
          g[1] \in GaugeIds(gauges) => add_gauge(gauges, g) = gauges

\* C9 as amended: at every point of a run the gauge registry holds the
\* first gauges of the script's list in order, and no two of them share an
\* id (hagibis 1..10, haishen 1..13); the add is a plain list append that
\* compares no ids: it adds a gauge with an id already present as a further
\* entry and raises nothing.
C9_UniqueAsWritten ==
    /\ UniqueIds(gauges)
    /\ Len(gauges) <= Len(GaugeList(scn.variant))
    /\ gauges = SubSeq(GaugeList(scn.variant), 1, Len(gauges))
    /\ Past("gauges") => GaugeIds(gauges) = 1..(IF scn.variant = "hagibis" THEN 10 ELSE 13)
    /\ Written => written[1].gauges = gauges
    /\ \A g \in ProbeGauges : Len(add_gauge(gauges, g)) = Len(gauges) + 1

\* C9 witness: all thirteen haishen gauges are in the written registry.
C9_Witness ==
    /\ Written
    /\ scn.variant = "haishen"
    /\ Len(written[1].gauges) = 13
    /\ GaugeIds(written[1].gauges) = 1..13

\* C10: arrival of an fgmax point is an at-most-once, one-way transition:
\* once the point has arrived at a sampled time t_a it is arrived at every
\* later sample, whatever the later depths, and its recorded arrival time
\* never changes (and is the time of a sample already taken).
C10_ArrivalOneWay ==
    /\ [][fg.arrived => (fg'.arrived /\ fg'.arrival_time = fg.arrival_time)]_vars
    /\ [](fg.arrived => (fg.arrival_time # None /\ fg.arrival_time <= fg.t))
    /\ [](~fg.arrived => fg.arrival_time = None)

\* C10 witness: a point that arrived at an earlier sample is still arrived
\* at a later sample whose depth is back within arrival_tol of the baseline.
C10_Witness ==
    /\ fg.arrived
    /\ fg.t > fg.arrival_time
    /\ fg.h - fg.baseline <= written[1].fgmax_data.fgmax_grids[fg.grid].arrival_tol

\* ------------------------------------------------------------------------
\* Validation, phases and serialization
\* ------------------------------------------------------------------------
\* the six cross-component checks, decided on a complete rundata
CheckHolds(k, rd) ==
    CASE k = 1 -> \A r \in LevelRefs(rd) :
                     1 <= r[1] /\ r[1] <= r[2] /\ r[2] <= rd.amrdata["amr_levels_max"]
      [] k = 2 -> \A a \in RatioAttrs :
                     Len(rd.amrdata[a]) = rd.amrdata["amr_levels_max"] - 1
      [] k = 3 -> OneModeSet(rd.clawdata)
      [] k = 4 -> \A i \in DOMAIN rd.friction_data.friction_regions :
                     WellFormedRegion(rd.friction_data.friction_regions[i])
      [] k = 5 -> UniqueIds(rd.gauges)
      [] k = 6 -> \A i \in DOMAIN rd.topofiles :
                     /\ rd.clawdata["t0"] <= rd.topofiles[i][4]
                     /\ rd.topofiles[i][4] <= rd.topofiles[i][5]
                     /\ rd.topofiles[i][5] <= rd.clawdata["tfinal"]

ViolatedChecks(rd) == { k \in 1..6 : ~CheckHolds(k, rd) }

\* C11 as stated: a specification that violates checks is reported (all of
\* its violated checks together) instead of being written, and no run ends
\* with a bare assertion.
C11_ViolationsReported ==
    /\ err # "AssertionError"
    /\ Written => ViolatedChecks(written[1]) = {}

\* C11 as amended: the only check of a build is the bare assert on claw_pkg
\* at the top of setrun, which ends the run with an AssertionError before
\* rundata is constructed and only for a package other than 'geoclaw' in
\* any letter case; nothing else is checked and nothing is reported: the
\* haishen specification, which violates checks (1) and (2), is written
\* like the hagibis one, which violates none.
C11_OnlyBareAssert ==
    /\ err \in {"none", "AssertionError"}
    /\ err = "AssertionError" => claw_pkg \notin {"geoclaw", "GeoClaw"}
    /\ claw_pkg \notin {"geoclaw", "GeoClaw"} => ~Constructed /\ ~Written
    /\ claw_pkg \in {"geoclaw", "GeoClaw"} => err = "none"
    /\ Written /\ scn = AsWritten("haishen") => ViolatedChecks(written[1]) = {1, 2}
    /\ Written /\ scn = AsWritten("hagibis") => ViolatedChecks(written[1]) = {}

\* C11 witness: the haishen specification, violating two checks, is
\* written with no error raised.
C11_Witness ==
    /\ Written
    /\ err = "none"
    /\ claw_pkg = "GeoClaw"
    /\ ViolatedChecks(written[1]) = {1, 2}

\* every list position of the script has appended all of its entries
Populated(rd, s) ==
    /\ Len(rd.regions) = Len(RegionLevels(s.variant))
    /\ Len(rd.gauges) = Len(GaugeList(s.variant))
    /\ Len(rd.topofiles) = Len(TopoList(s.variant))
    /\ Len(rd.qinit_data.force_dry_list) = Len(ForceDryList(s.variant))
    /\ Len(rd.fgmax_data.fgmax_grids) = Len(FgmaxList(s.variant))
    /\ Len(rd.friction_data.friction_regions) = Len(s.friction)
    /\ IsSet(rd.clawdata, "tfinal") /\ IsSet(rd.amrdata, "aux_type")
    /\ IsSet(rd.geo_data, "coordinate_system") /\ IsSet(rd.surge_data, "storm_type")

\* C12 as stated: serialization is reached only with a fully populated
\* specification whose validation has completed without error, i.e. one
\* that violates none of the checks.
C12_WriteOnlyValidated ==
    pc \in {"write", "written"} =>
       /\ Populated(rundata, scn)
       /\ ViolatedChecks(rundata) = {}

\* C12 as amended: a build has two phases, construct and serialize, and no
\* validation between them: the script's positions are passed in program
\* order, each once; rundata.write() is reached only after setrun has
\* returned the fully populated specification, happens once, emits that
\* specification whatever checks it violates, and no component is modified
\* afterwards.
C12_ConstructThenWrite ==
    /\ [][IndexOf(pc') >= IndexOf(pc)]_vars
    /\ [][Written => (rundata' = rundata /\ written' = written)]_vars
    /\ [](pc \in {"write", "written"} => Populated(rundata, scn) /\ err = "none")
    /\ [](Written <=> pc = "written")
    /\ [](Written => Len(written) = 1 /\ written[1] = rundata)

\* C12 witness: the haishen specification, which violates two checks, has
\* been written once and the solver has since sampled an fgmax point.
C12_Witness ==
    /\ pc = "written"
    /\ Len(written) = 1
    /\ written[1] = rundata
    /\ ViolatedChecks(written[1]) # {}
    /\ fg.j > 0

\* ------------------------------------------------------------------------
\* Two specifications in one process; setgeo applied again
\* ------------------------------------------------------------------------
\* the registries of a rundata
Registries(rd) ==
    <<rd.regions, rd.gauges, rd.topofiles, rd.fgmax_data.fgmax_grids,
      rd.qinit_data.force_dry_list, rd.friction_data.friction_regions>>

\* the bound lists a friction region of rd refers to, as it finds them
FrictionBounds(rd) ==
    [i \in DOMAIN rd.friction_data.friction_regions |->
        <<Deref(rd.friction_data.friction_regions[i].lower, rd.clawdata),
          Deref(rd.friction_data.friction_regions[i].upper, rd.clawdata)>>]

\* C14: two specifications built by two calls of setrun in one process are
\* two objects that share no registry: while the second is built (its
\* domain bounds assigned, its registries appended to) every registry of
\* the first, and the bound lists its friction region refers to, stay as
\* they are, and appending to a registry of the first changes nothing in
\* the second.
C14_NoSharedRegistry ==
    /\ [](kept # NoKept => kept.id # cur)
    /\ [][kept # NoKept /\ rundata' # rundata =>
             /\ Registries(kept.rd)' = Registries(kept.rd)
             /\ FrictionBounds(kept.rd)' = FrictionBounds(kept.rd)]_vars
    /\ [][kept # NoKept /\ kept'.rd # kept.rd => rundata' = rundata]_vars

\* C14 witness: the second specification is complete and written while the
\* first, to which the caller has appended a gauge, holds one gauge more.
C14_Witness ==
    /\ kept # NoKept
    /\ Written
    /\ Len(kept.rd.gauges) = Len(GaugeList(scn.variant)) + 1
    /\ Len(written[1].gauges) = Len(GaugeList(scn.variant))
    /\ Len(kept.rd.friction_data.friction_regions) = Len(written[1].friction_data.friction_regions)

\* ------------------------------------------------------------------------
\* Topography windows
\* ------------------------------------------------------------------------
\* the windows of the topography entries of rd lie within [t0, tfinal] of rd
WindowsWithin(ts, cd) ==
    \A i \in DOMAIN ts :
       cd["t0"] <= ts[i][4] /\ ts[i][4] <= ts[i][5] /\ ts[i][5] <= cd["tfinal"]

\* the topography list with one more entry, whose window [t0, tfinal + 1]
\* reaches beyond the final time of cd
WithLateEntry(ts, cd) ==
    add_topography(ts, <<3, 1, 1, "late.dat">>, SetAttr(cd, "tfinal", cd["tfinal"] + 1))

GridOfPoint(st) == written[1].fgmax_data.fgmax_grids[st.grid]

\* the last sample of the point was taken inside the active window
InWindow(st) ==
    GridOfPoint(st).tstart_max <= st.t /\ st.t <= GridOfPoint(st).tend_max

\* the last sample of the point exceeds its baseline by more than arrival_tol
Exceeds(st) == st.h - st.baseline > GridOfPoint(st).arrival_tol

\* C16: the arrival time of an fgmax point is the earliest sampled time
\* inside [tstart_max, tend_max] at which depth - baseline_depth >
\* arrival_tol holds strictly, the baseline being the depth of the first
\* sample of the window: the point arrives at a sample exactly when it has
\* not arrived before and that sample is in the window and exceeds the
\* threshold, the time recorded is the time of that sample, a sample
\* outside the window changes neither the arrival state nor the baseline,
\* and a point with no such sample stays not-arrived.
C16_EarliestExceedingSample ==
    /\ [][fg'.j = fg.j + 1 /\ ~fg.arrived =>
             /\ fg'.arrived <=> (InWindow(fg') /\ Exceeds(fg'))
             /\ fg'.arrived => fg'.arrival_time = fg'.t]_vars
    /\ [][fg'.j = fg.j + 1 /\ ~InWindow(fg') =>
             /\ fg'.arrived = fg.arrived
             /\ fg'.arrival_time = fg.arrival_time
             /\ fg'.baseline = fg.baseline]_vars
    /\ [][fg'.j = fg.j + 1 /\ InWindow(fg') =>
             fg'.baseline = (IF fg.baseline = None THEN fg'.h ELSE fg.baseline)]_vars
    /\ [][fg'.j = fg.j + 1 /\ fg.baseline = None /\ fg'.baseline # None =>
             fg'.t = GridOfPoint(fg').tstart_max]_vars
    /\ [](fg.j > 0 => fg.t = SampleTime(GridOfPoint(fg), fg.j - 1))

\* C16 witness: a point arrives at the third sample of the window, two
\* sampling intervals after the window start, with a depth that exceeds the
\* strict threshold by one unit.
C16_Witness ==
    /\ fg.arrived
    /\ fg.j = PreSamples + 3
    /\ fg.t = fg.arrival_time
    /\ fg.arrival_time = GridOfPoint(fg).tstart_max + 2 * GridOfPoint(fg).dt_check
    /\ fg.h - fg.baseline = GridOfPoint(fg).arrival_tol + 1

C18_OneTypePerAux ==
    /\ IsSet(clawdata, "num_aux") /\ IsSet(amrdata, "aux_type") =>
          Len(amrdata["aux_type"]) = clawdata["num_aux"]
    /\ Written =>
          Len(written[1].amrdata["aux_type"]) = written[1].clawdata["num_aux"]

\* ------------------------------------------------------------------------
\* setgeo applied again
\* ------------------------------------------------------------------------
\* setgeo has returned
Returned == pc \in {"return", "write", "written"}

\* seq repeated n times
RECURSIVE Times(_, _)
Times(seq, n) == IF n = 0 THEN <<>> ELSE Times(seq, n - 1) \o seq

\* the topography entries one application of setgeo leaves
TopoOnce(s, cd) ==
    [i \in DOMAIN TopoList(s.variant) |->
        <<TopoList(s.variant)[i][1], TopoList(s.variant)[i][2],
          TopoList(s.variant)[i][3], cd["t0"], cd["tfinal"], TopoList(s.variant)[i][4]>>]

\* C19 as stated: after setgeo has been applied once more to the rundata it
\* returned, every registry holds the entries one application leaves, in
\* the same order and with the same count.
C19_SetgeoIdempotent ==
    Returned =>
       /\ topofiles = TopoOnce(scn, clawdata)
       /\ dtopofiles = <<>>
       /\ qinit_data.qinitfiles = <<>>
       /\ qinit_data.force_dry_list = ForceDryList(scn.variant)
       /\ fgmax_data.fgmax_grids = FgmaxList(scn.variant)
       /\ friction_data.friction_regions = scn.friction

\* C19 as amended: setgeo is idempotent on the registries it assigns anew
\* (topofiles, dtopofiles, qinitfiles, fixedgrids), which after any number
\* of applications hold what one application leaves; to force_dry_list,
\* fgmax_grids and friction_regions it only appends, so after n
\* applications each of them holds its entries n times over, in order.
C19_AssignedOnceAppendedAgain ==
    Returned =>
       /\ topofiles = TopoOnce(scn, clawdata)
       /\ dtopofiles = <<>>
       /\ qinit_data.qinitfiles = <<>>
       /\ fixedgrids = <<>>
       /\ qinit_data.force_dry_list = Times(ForceDryList(scn.variant), setgeo_calls + 1)
       /\ fgmax_data.fgmax_grids = Times(FgmaxList(scn.variant), setgeo_calls + 1)
       /\ friction_data.friction_regions = Times(scn.friction, setgeo_calls + 1)

\* C19 witness: after the second application to the hagibis rundata there
\* are five topography entries as before, but four fgmax grids, two
\* force-dry entries and two friction regions.
C19_Witness ==
    /\ pc = "return"
    /\ setgeo_calls = 1
    /\ scn.variant = "hagibis"
    /\ Len(topofiles) = 5
    /\ Len(fgmax_data.fgmax_grids) = 4
    /\ Len(qinit_data.force_dry_list) = 2
    /\ Len(friction_data.friction_regions) = 2

\* ------------------------------------------------------------------------
\* Cell widths
\* ------------------------------------------------------------------------
\* product of the first k entries of a ratio list
RECURSIVE Prod(_, _)
Prod(rs, k) == IF k = 0 THEN 1 ELSE Prod(rs, k - 1) * rs[k]

\* w is the cell width of cd on both axes: (upper - lower) / num_cells
BaseWidth(cd, w) ==
    \A i \in 1..2 : cd["upper"][i] - cd["lower"][i] = w * cd["num_cells"][i]

\* the levels (1-based) whose cell width is dx, the base width being w
LevelsOfWidth(ad, w, dx) ==
    { k + 1 : k \in { m \in 0..(ad["amr_levels_max"] - 1) :
                        /\ m <= Len(ad["refinement_ratios_x"])
                        /\ dx * Prod(ad["refinement_ratios_x"], m) = w
                        /\ dx * Prod(ad["refinement_ratios_y"], m) = w } }

\* the base width the claim names: 2430 m, 1/10 degree
NamedWidth(v) == IF v = "hagibis" THEN 2430 ELSE 10

FgmaxOnLevels(rd, v) ==
    \A i \in DOMAIN rd.fgmax_data.fgmax_grids :
       LET g == rd.fgmax_data.fgmax_grids[i]
       IN  /\ LevelsOfWidth(rd.amrdata, NamedWidth(v), g.dx) # {}
           /\ g.dx > 0
           /\ (g.x2 - g.x1) % g.dx = 0
           /\ (g.y2 - g.y1) % g.dx = 0

\* C20: the base cell width (upper - lower) / num_cells is the same on both
\* axes (2430 m in hagibis, 1/10 degree in haishen), and the resolution dx
\* of every fgmax grid is the cell width of an instantiated level, the base
\* width divided by the product of the first k refinement ratios for some
\* 0 <= k <= amr_levels_max - 1 (hagibis: 90 m is level 4 and 30 m level
\* 5), the x and y extents of the grid being whole multiples of dx.
C20_FgmaxOnAmrLevel ==
    /\ IsSet(clawdata, "num_dim") => BaseWidth(clawdata, NamedWidth(scn.variant))
    /\ Past("amr_levels") => FgmaxOnLevels(rundata, scn.variant)
    /\ Written =>
          /\ BaseWidth(written[1].clawdata, NamedWidth(scn.variant))
          /\ FgmaxOnLevels(written[1], scn.variant)
          /\ scn.variant = "hagibis" =>
                /\ LevelsOfWidth(written[1].amrdata, 2430,
                                 written[1].fgmax_data.fgmax_grids[1].dx) = {4}
                /\ LevelsOfWidth(written[1].amrdata, 2430,
                                 written[1].fgmax_data.fgmax_grids[2].dx) = {5}
          /\ scn.variant = "haishen" =>
                LevelsOfWidth(written[1].amrdata, 10,
                              written[1].fgmax_data.fgmax_grids[1].dx) = {1}

\* C20 witness: the written hagibis specification has the 599 x 509 grid of
\* 2430 m cells and the fgmax grids of 90 m and 30 m, 549 x 699 and
\* 649 x 989 steps wide.
C20_Witness ==
    /\ Written
    /\ scn.variant = "hagibis"
    /\ written[1].clawdata["num_cells"] = <<599, 509>>
    /\ written[1].fgmax_data.fgmax_grids[1].dx = 90
    /\ written[1].fgmax_data.fgmax_grids[1].x2 - written[1].fgmax_data.fgmax_grids[1].x1 = 549 * 90
    /\ written[1].fgmax_data.fgmax_grids[2].dx = 30
    /\ written[1].fgmax_data.fgmax_grids[2].y2 - written[1].fgmax_data.fgmax_grids[2].y1 = 989 * 30

\* ------------------------------------------------------------------------
\* Output list and run interval
\* ------------------------------------------------------------------------
\* the explicit output list of cd starts at t0 and ends at tfinal
SpansRun(cd) ==
    /\ cd["output_times"] # <<>>
    /\ cd["output_times"][1] = cd["t0"]
    /\ cd["output_times"][Len(cd["output_times"])] = cd["tfinal"]

\* C21: in each scenario the explicit output-time list starts at t0 and its
\* last entry equals tfinal, so that the solver, which stops after the
\* final output time, covers the interval [t0, tfinal] the topography
\* windows are declared for: this holds of the list in rundata once it is
\* assigned and of the list that is written.
C21_ListSpansRun ==
    /\ scn.edit = "none" /\ IsSet(clawdata, "output_times") => SpansRun(clawdata)
    /\ scn.edit = "none" /\ Written =>
          /\ SpansRun(written[1].clawdata)
          /\ \A i \in DOMAIN written[1].topofiles :
                written[1].topofiles[i][5]
                   <= written[1].clawdata["output_times"][Len(written[1].clawdata["output_times"])]

====
